---- MODULE Spec2Model ----
(***************************************************************************)
(* The no-inner-declarations rule of deno_lint                             *)
(* (src/rules/no_inner_declarations.rs).                                   *)
(*                                                                         *)
(* A program is a syntax tree.  Nodes are numbered 1..Len(tree) in source  *)
(* order (pre-order), and a node's number stands for its Span.  Parent 0   *)
(* is the Module/Script itself.  lint_program runs ValidDeclsVisitor over  *)
(* the whole tree (VisitAll), then NoInnerDeclarationsVisitor (Visit).     *)
(***************************************************************************)
EXTENDS Naturals, Sequences, FiniteSets

VARIABLES program, tree, pc, valid_decls, cpos, in_function, diagnostics, stack

vars == <<program, tree, pc, valid_decls, cpos, in_function, diagnostics, stack>>

\* Trees of up to MaxNodes nodes of any shape, and chains (every node the
\* only child of the previous one) of up to MaxDepth nodes.
MaxNodes == 3
MaxDepth == 4

-----------------------------------------------------------------------------
(* The syntax tree (deno_ast::swc::ast), as far as the rule looks at it.   *)

\* kind:
\*   "Block"        an if / while / do-while / block statement
\*   "FnDecl"       FnDecl and its Function; children = body statements
\*   "VarDecl"      VarDecl; children = function-like initialisers
\*   "FnExpr"       a Function that is no declaration (function expression,
\*                  method); children = body statements
\*   "ArrowExpr"    ArrowExpr, body "BlockStmt" (children = body statements)
\*                  or "Expr" (children = function-like parts of the expression)
\*   "Constructor"  a class with its Constructor; children = body statements
\*   "ExportDefaultFn"  ModuleDecl::ExportDefaultDecl(DefaultDecl::Fn)
\* exported: the declaration is wrapped in ModuleDecl::ExportDecl.
VarDeclKind == {"var", "let", "const"}

NodeShapes ==
    [kind : {"Block", "FnDecl", "FnExpr", "Constructor", "ExportDefaultFn"},
     var_kind : {"none"}, body : {"none"}, exported : {FALSE}]
      \cup
    [kind : {"FnDecl"}, var_kind : {"none"}, body : {"none"}, exported : {TRUE}]
      \cup
    [kind : {"VarDecl"}, var_kind : VarDeclKind, body : {"none"}, exported : BOOLEAN]
      \cup
    [kind : {"ArrowExpr"}, var_kind : {"none"}, body : {"BlockStmt", "Expr"},
     exported : {FALSE}]

Nodes == 1..Len(tree)

Kind(i) == tree[i].kind

Parent(i) == tree[i].parent

ChildSet(p) == {j \in Nodes : tree[j].parent = p}

RECURSIVE SortedSeq(_)
SortedSeq(S) ==
    IF S = {} THEN <<>>
    ELSE LET m == CHOOSE x \in S : \A y \in S : x <= y
         IN  <<m>> \o SortedSeq(S \ {m})

\* The children of p (0: the program) in source order.
Children(p) == SortedSeq(ChildSet(p))

RECURSIVE Ancestors(_)
Ancestors(i) ==
    IF tree[i].parent = 0 THEN {}
    ELSE {tree[i].parent} \cup Ancestors(tree[i].parent)

\* A node whose children are the statements of a body / block.
HoldsStmts(n) ==
    \/ n.kind \in {"Block", "FnDecl", "FnExpr", "Constructor", "ExportDefaultFn"}
    \/ n.kind = "ArrowExpr" /\ n.body = "BlockStmt"

\* A node that can stand where an expression stands.
IsExprShape(n) == n.kind \in {"FnExpr", "ArrowExpr", "Constructor"}

\* What the parser can produce: child shape n under parent p.
Allowed(p, n) ==
    /\ n.exported => (p = 0 /\ program = "Module")
    /\ n.kind = "ExportDefaultFn" =>
          /\ p = 0
          /\ program = "Module"
          /\ \A j \in Nodes : tree[j].kind # "ExportDefaultFn"
    /\ p # 0 =>
          \/ HoldsStmts(tree[p])
          \/ /\ \/ tree[p].kind = "VarDecl"
                \/ tree[p].kind = "ArrowExpr" /\ tree[p].body = "Expr"
             /\ IsExprShape(n)

\* The nodes the next node in source order can hang under.
OpenNodes == IF tree = <<>> THEN {0} ELSE {0, Len(tree)} \cup Ancestors(Len(tree))

IsChain == \A j \in Nodes : tree[j].parent = j - 1

WithinBounds(p) ==
    \/ Len(tree) < MaxNodes
    \/ IsChain /\ p = Len(tree) /\ Len(tree) < MaxDepth

-----------------------------------------------------------------------------
(* ValidDeclsVisitor: the declarations that sit directly in a root list.   *)

\* Stmt::Decl(decl) / the Decl of an ExportDecl.  (A class declaration is a
\* Decl too; check_decl leaves it alone like any node that is no FnDecl or
\* VarDecl.)
IsDecl(i) == Kind(i) \in {"FnDecl", "VarDecl"}

check_decl(valid, d) ==
    CASE Kind(d) = "FnDecl" -> valid \cup {d}
      [] Kind(d) = "VarDecl" ->
            IF tree[d].var_kind = "var" THEN valid \cup {d} ELSE valid
      [] OTHER -> valid

RECURSIVE check_stmts(_, _)
check_stmts(valid, stmts) ==
    IF stmts = <<>> THEN valid
    ELSE check_stmts(IF IsDecl(Head(stmts)) THEN check_decl(valid, Head(stmts))
                     ELSE valid,
                     Tail(stmts))

visit_script(valid) == check_stmts(valid, Children(0))

\* Variant of visit_module_item without the ModuleDecl::ExportDecl arm.
visit_module_item_no_export(valid, item) ==
    CASE Kind(item) = "ExportDefaultFn" -> valid \cup {item}
      [] OTHER -> IF IsDecl(item) /\ ~tree[item].exported
                  THEN check_decl(valid, item)
                  ELSE valid

visit_module_item(valid, item) ==
    CASE tree[item].exported -> check_decl(valid, item)
      [] Kind(item) = "ExportDefaultFn" -> valid \cup {item}
      [] OTHER -> IF IsDecl(item) THEN check_decl(valid, item) ELSE valid

ValidDecls_visit_function(valid, function) ==
    check_stmts(valid, Children(function))

\* Variant: ValidDeclsVisitor without a visit_constructor handler.
ValidDecls_visit_constructor_missing(valid, constructor) == valid

ValidDecls_visit_constructor(valid, constructor) ==
    check_stmts(valid, Children(constructor))

ValidDecls_visit_arrow_expr(valid, arrow_expr) ==
    IF tree[arrow_expr].body = "BlockStmt"
    THEN check_stmts(valid, Children(arrow_expr))
    ELSE valid

\* VisitAll calls every handler that matches node i.
VisitAllNode(valid, i) ==
    LET v1 == IF program = "Module" /\ Parent(i) = 0
              THEN visit_module_item(valid, i)
              ELSE valid
    IN  CASE Kind(i) \in {"FnDecl", "FnExpr", "ExportDefaultFn"} ->
                ValidDecls_visit_function(v1, i)
          [] Kind(i) = "Constructor" -> ValidDecls_visit_constructor(v1, i)
          [] Kind(i) = "ArrowExpr" -> ValidDecls_visit_arrow_expr(v1, i)
          [] OTHER -> v1

\* Variant: the second pass does not wait for the first.
CollectorFinished_early(pos) == TRUE

\* lint_program starts the second pass once visit_all_with has returned.
CollectorFinished(pos) == pos > Len(tree)

-----------------------------------------------------------------------------
(* NoInnerDeclarationsVisitor.                                             *)

\* Variant: the two roots swapped.
Root_inverted(inf) == IF inf THEN "module" ELSE "function"

Root(inf) == IF inf THEN "function" ELSE "module"

\* Variant: the newest diagnostic is put first.
add_diagnostic_prepend(diags, span, kind, inf) ==
    <<[span |-> span, kind |-> kind, root |-> Root(inf)]>> \o diags

add_diagnostic(diags, span, kind, inf) ==
    Append(diags, [span |-> span, kind |-> kind, root |-> Root(inf)])

FnDeclInvalid(valid, decl) == decl \notin valid

\* Variant: the kind of the VarDecl is not looked at.
VarDeclInvalid_any_kind(valid, decl) == decl \notin valid

VarDeclInvalid(valid, decl) ==
    tree[decl].var_kind = "var" /\ decl \notin valid

\* Variants: in_function not set on entry; not written back on return.
EnterValue_unset(old) == old

RestoreValue_stuck(old) == TRUE

\* The value visit_function / visit_arrow_expr give in_function on entry,
\* and the one they leave on return.
EnterValue(old) == TRUE

RestoreValue(old) == old

RECURSIVE VisitItems(_)
VisitItems(s) ==
    IF s = <<>> THEN <<>>
    ELSE <<[op |-> "visit", node |-> Head(s), old |-> FALSE]>> \o VisitItems(Tail(s))

\* visit_children_with: the children, in source order.
ChildItems(i) == VisitItems(Children(i))

\* Children of a VarDecl / FnDecl are visited whether or not it was reported.
VarDeclDescend(decl) == ChildItems(decl)

\* Variant: the children of a reported FnDecl are skipped.
FnDeclDescend_unless_reported(decl) ==
    IF decl \in valid_decls
    THEN <<[op |-> "function", node |-> decl, old |-> FALSE]>>
    ELSE <<>>

FnDeclDescend(decl) == <<[op |-> "function", node |-> decl, old |-> FALSE]>>

Top == Head(stack)

-----------------------------------------------------------------------------
Init ==
    /\ program \in {"Module", "Script"}
    /\ tree = <<>>
    /\ pc = "parse"
    /\ valid_decls = {}
    /\ cpos = 0
    /\ in_function = FALSE
    /\ diagnostics = <<>>
    /\ stack = <<>>

\* The parser hands over the next node in source order.
Parse ==
    /\ pc = "parse"
    /\ \E p \in OpenNodes, n \in NodeShapes :
          /\ Allowed(p, n)
          /\ WithinBounds(p)
          /\ tree' = Append(tree, [kind |-> n.kind, var_kind |-> n.var_kind,
                                   body |-> n.body, exported |-> n.exported,
                                   parent |-> p])
    /\ UNCHANGED <<program, pc, valid_decls, cpos, in_function, diagnostics, stack>>

\* lint_program: ValidDeclsVisitor::new().
NewValidDeclsVisitor ==
    /\ pc = "parse"
    /\ pc' = "collect"
    /\ valid_decls' = {}
    /\ cpos' = 0
    /\ UNCHANGED <<program, tree, in_function, diagnostics, stack>>

Collect_visit_script ==
    /\ pc = "collect" /\ cpos = 0 /\ program = "Script"
    /\ valid_decls' = visit_script(valid_decls)
    /\ cpos' = 1
    /\ UNCHANGED <<program, tree, pc, in_function, diagnostics, stack>>

\* ValidDeclsVisitor has no handler for the Module node itself.
Collect_visit_module ==
    /\ pc = "collect" /\ cpos = 0 /\ program = "Module"
    /\ cpos' = 1
    /\ UNCHANGED <<program, tree, pc, valid_decls, in_function, diagnostics, stack>>

Collect_visit_node ==
    /\ pc = "collect" /\ cpos \in Nodes
    /\ valid_decls' = VisitAllNode(valid_decls, cpos)
    /\ cpos' = cpos + 1
    /\ UNCHANGED <<program, tree, pc, in_function, diagnostics, stack>>

\* lint_program: NoInnerDeclarationsVisitor::new(context, valid_decls) and the
\* call of visit_with on the program.
NewNoInnerDeclarationsVisitor ==
    /\ pc = "collect" /\ CollectorFinished(cpos)
    /\ pc' = "scan"
    /\ in_function' = FALSE
    /\ stack' = ChildItems(0)
    /\ UNCHANGED <<program, tree, valid_decls, cpos, diagnostics>>

Scan_visit_fn_decl ==
    /\ pc = "scan" /\ stack # <<>>
    /\ Top.op = "visit" /\ Kind(Top.node) = "FnDecl"
    /\ diagnostics' = IF FnDeclInvalid(valid_decls, Top.node)
                      THEN add_diagnostic(diagnostics, Top.node, "function", in_function)
                      ELSE diagnostics
    /\ stack' = FnDeclDescend(Top.node) \o Tail(stack)
    /\ UNCHANGED <<program, tree, pc, valid_decls, cpos, in_function>>

Scan_visit_var_decl ==
    /\ pc = "scan" /\ stack # <<>>
    /\ Top.op = "visit" /\ Kind(Top.node) = "VarDecl"
    /\ diagnostics' = IF VarDeclInvalid(valid_decls, Top.node)
                      THEN add_diagnostic(diagnostics, Top.node, "variable", in_function)
                      ELSE diagnostics
    /\ stack' = VarDeclDescend(Top.node) \o Tail(stack)
    /\ UNCHANGED <<program, tree, pc, valid_decls, cpos, in_function>>

\* visit_function up to the return of visit_children_with.
Scan_visit_function ==
    /\ pc = "scan" /\ stack # <<>>
    /\ \/ Top.op = "function"
       \/ Top.op = "visit" /\ Kind(Top.node) \in {"FnExpr", "ExportDefaultFn"}
    /\ in_function' = EnterValue(in_function)
    /\ stack' = ChildItems(Top.node)
                  \o <<[op |-> "restore", node |-> Top.node, old |-> in_function]>>
                  \o Tail(stack)
    /\ UNCHANGED <<program, tree, pc, valid_decls, cpos, diagnostics>>

\* visit_arrow_expr up to the return of visit_children_with.
Scan_visit_arrow_expr ==
    /\ pc = "scan" /\ stack # <<>>
    /\ Top.op = "visit" /\ Kind(Top.node) = "ArrowExpr"
    /\ in_function' = EnterValue(in_function)
    /\ stack' = ChildItems(Top.node)
                  \o <<[op |-> "restore", node |-> Top.node, old |-> in_function]>>
                  \o Tail(stack)
    /\ UNCHANGED <<program, tree, pc, valid_decls, cpos, diagnostics>>

\* The last line of visit_function / visit_arrow_expr.
Scan_restore ==
    /\ pc = "scan" /\ stack # <<>>
    /\ Top.op = "restore"
    /\ in_function' = RestoreValue(Top.old)
    /\ stack' = Tail(stack)
    /\ UNCHANGED <<program, tree, pc, valid_decls, cpos, diagnostics>>

\* Nodes the visitor has no handler for (blocks, classes and constructors):
\* the children are visited.
Scan_visit_children ==
    /\ pc = "scan" /\ stack # <<>>
    /\ Top.op = "visit" /\ Kind(Top.node) \in {"Block", "Constructor"}
    /\ stack' = ChildItems(Top.node) \o Tail(stack)
    /\ UNCHANGED <<program, tree, pc, valid_decls, cpos, in_function, diagnostics>>

\* visit_with returns; lint_program returns.
LintDone ==
    /\ pc = "scan" /\ stack = <<>>
    /\ pc' = "done"
    /\ UNCHANGED <<program, tree, valid_decls, cpos, in_function, diagnostics, stack>>

Next ==
    \/ Parse
    \/ NewValidDeclsVisitor
    \/ Collect_visit_script
    \/ Collect_visit_module
    \/ Collect_visit_node
    \/ NewNoInnerDeclarationsVisitor
    \/ Scan_visit_fn_decl
    \/ Scan_visit_var_decl
    \/ Scan_visit_function
    \/ Scan_visit_arrow_expr
    \/ Scan_restore
    \/ Scan_visit_children
    \/ LintDone

Spec == Init /\ [][Next]_vars

-----------------------------------------------------------------------------
(* Properties of the rule.                                                 *)

\* A declaration the rule can report: a function declaration or a `var`.
Reportable(i) ==
    \/ Kind(i) = "FnDecl"
    \/ Kind(i) = "VarDecl" /\ tree[i].var_kind = "var"

LetOrConst(i) == Kind(i) = "VarDecl" /\ tree[i].var_kind \in {"let", "const"}

\* An ordinary function (declared, expression, default export) or an arrow.
FunctionOrArrow(i) == Kind(i) \in {"FnDecl", "FnExpr", "ExportDefaultFn", "ArrowExpr"}

\* A node with a body whose statement list is a scope root.
BodyOwner(i) ==
    \/ Kind(i) \in {"FnDecl", "FnExpr", "ExportDefaultFn", "Constructor"}
    \/ Kind(i) = "ArrowExpr" /\ tree[i].body = "BlockStmt"

InBlock(i) == Parent(i) # 0 /\ Kind(Parent(i)) = "Block"

DiagsFor(i) == {j \in DOMAIN diagnostics : diagnostics[j].span = i}

Reported(i) == DiagsFor(i) # {}

\* C1: a declaration that is a direct element of the top-level list of the
\* module or script is never reported, whatever its kind and whether it is
\* bare, wrapped in a named export or a default-exported function.
C1_TopLevelNeverReported ==
    \A i \in Nodes :
        (Parent(i) = 0 /\ Kind(i) \in {"FnDecl", "VarDecl", "ExportDefaultFn"})
            => ~Reported(i)

C1_Witness ==
    /\ pc = "done"
    /\ diagnostics # <<>>
    /\ \E i \in Nodes :
          Parent(i) = 0 /\ tree[i].exported /\ Reportable(i)

C3_InnerInModule ==
    pc = "done" =>
        \A i \in Nodes :
            (/\ Reportable(i)
             /\ InBlock(i)
             /\ \A a \in Ancestors(i) : Kind(a) = "Block")
                => /\ Cardinality(DiagsFor(i)) = 1
                   /\ \A j \in DiagsFor(i) : diagnostics[j].root = "module"

C3_Witness ==
    /\ pc = "done"
    /\ \E i \in Nodes :
          /\ Kind(i) = "FnDecl" /\ InBlock(i) /\ Parent(Parent(i)) = 0
          /\ ChildSet(i) # {}
          /\ \E j \in DiagsFor(i) : diagnostics[j].root = "module"

\* The tree without the let/const declarations that contain no function or
\* var declaration (each removed with all it contains).
Removable(i) ==
    /\ LetOrConst(i)
    /\ \A k \in Nodes : i \in Ancestors(k) => ~Reportable(k)

Kept == {i \in Nodes : ~Removable(i) /\ \A a \in Ancestors(i) : ~Removable(a)}

NewId(i) == Cardinality({k \in Kept : k <= i})

Stripped ==
    [j \in 1..Cardinality(Kept) |->
        LET i == CHOOSE k \in Kept : NewId(k) = j
        IN  [tree[i] EXCEPT !.parent = IF @ = 0 THEN 0 ELSE NewId(@)]]

\* The function and var declarations of tree t that sit in a block construct.
InnerDeclarations(t) ==
    {i \in DOMAIN t :
        /\ \/ t[i].kind = "FnDecl"
           \/ t[i].kind = "VarDecl" /\ t[i].var_kind = "var"
        /\ t[i].parent # 0
        /\ t[t[i].parent].kind = "Block"}

\* C4: no let or const declaration is ever reported, wherever it stands, and
\* the number of diagnostics is that of the tree with its let/const
\* declarations (those holding no function or var declaration) removed.
C4_LetConstNeverReported ==
    /\ \A j \in DOMAIN diagnostics : ~LetOrConst(diagnostics[j].span)
    /\ pc = "done" => Len(diagnostics) = Cardinality(InnerDeclarations(Stripped))

C4_Witness ==
    /\ pc = "done"
    /\ diagnostics # <<>>
    /\ \E i \in Nodes : LetOrConst(i) /\ InBlock(i) /\ Removable(i)

\* C5: diagnostics are submitted in source order: an earlier declaration
\* before a later one, a reported declaration before those nested in it.
C5_SourceOrder ==
    \A j, k \in DOMAIN diagnostics :
        /\ j < k => diagnostics[j].span < diagnostics[k].span
        /\ diagnostics[j].span \in Ancestors(diagnostics[k].span) => j < k

C5_Witness ==
    /\ pc = "done"
    /\ Len(diagnostics) = 2
    /\ diagnostics[1].span \in Ancestors(diagnostics[2].span)

\* C6: while the scanner visits what lies inside an ordinary function, a
\* constructor or a block-bodied arrow function, in_function is true, so every
\* diagnostic for a declaration inside one of them has root "function".
C6_InFunctionInsideFunctionLike ==
    /\ (pc = "scan" /\ stack # <<>> /\ Top.op = "visit"
          /\ \E a \in Ancestors(Top.node) : BodyOwner(a))
            => in_function
    /\ \A j \in DOMAIN diagnostics :
          (\E a \in Ancestors(diagnostics[j].span) : BodyOwner(a))
              => diagnostics[j].root = "function"

RestoreItems == {p \in DOMAIN stack : stack[p].op = "restore"}

\* C7: in_function starts false and every function-like node leaves it as it
\* found it, at every depth: it is true exactly while a function or arrow is
\* open, each open one remembers whether an outer one is open, it is false at
\* the end, and a declaration outside every function is reported with root
\* "module" also after function-like nodes were visited.
C7_InFunctionRestored ==
    /\ pc = "scan" =>
          /\ in_function = (RestoreItems # {})
          /\ \A p \in RestoreItems :
                stack[p].old = (\E q \in RestoreItems : q > p)
    /\ pc = "done" =>
          /\ ~in_function
          /\ \A j \in DOMAIN diagnostics :
                (\A a \in Ancestors(diagnostics[j].span) : ~FunctionOrArrow(a))
                    => diagnostics[j].root = "module"

C7_Witness ==
    /\ pc = "done"
    /\ ~in_function
    /\ \E f, i \in Nodes :
          /\ Parent(f) = 0 /\ FunctionOrArrow(f) /\ f < i
          /\ \A a \in Ancestors(i) : Kind(a) = "Block"
          /\ \E j \in DiagsFor(i) : diagnostics[j].root = "module"

\* C8: once the collector is through, a function or var declaration is in
\* valid_decls exactly if it is a direct element of a root list: the top
\* level, or the body of a function, constructor or block-bodied arrow,
\* however deep that body lies and whether or not its function declaration is
\* reported; and such a declaration is never reported.
C8_BodyRootValid ==
    pc \in {"scan", "done"} =>
        \A i \in Nodes :
            Reportable(i) =>
                /\ (i \in valid_decls) = (Parent(i) = 0 \/ BodyOwner(Parent(i)))
                /\ (Parent(i) # 0 /\ BodyOwner(Parent(i))) => ~Reported(i)

C8_Witness ==
    /\ pc = "done"
    /\ \E i \in Nodes :
          /\ Reportable(i)
          /\ Parent(i) # 0 /\ Kind(Parent(i)) = "FnDecl" /\ Reported(Parent(i))
          /\ i \in valid_decls
          /\ ~Reported(i)

\* C9: the diagnostics correspond one to one to the function declarations
\* and var declarations whose span is not in valid_decls, with kind "function"
\* resp. "variable"; a declaration inside a reported or a valid function is
\* judged on its own.
C9_OneToOne ==
    pc = "done" =>
        /\ \A i \in Nodes :
              Cardinality(DiagsFor(i)) =
                  IF Reportable(i) /\ i \notin valid_decls THEN 1 ELSE 0
        /\ \A j \in DOMAIN diagnostics :
              /\ diagnostics[j].span \in Nodes
              /\ diagnostics[j].kind =
                    IF Kind(diagnostics[j].span) = "FnDecl"
                    THEN "function" ELSE "variable"

C9_Witness ==
    /\ pc = "done"
    /\ \E f, i \in Nodes :
          /\ Kind(f) = "FnDecl" /\ f \in Ancestors(i) /\ Kind(i) = "VarDecl"
          /\ \E j \in DiagsFor(f) : diagnostics[j].kind = "function"
          /\ \E j \in DiagsFor(i) : diagnostics[j].kind = "variable"

\* C10: the collector has visited the whole tree before the scanner starts;
\* nothing is reported while valid_decls is being filled, and valid_decls
\* does not change from the start of the scan on.
C10_PassesSequential ==
    /\ [](pc = "collect" => diagnostics = <<>> /\ stack = <<>>)
    /\ [](pc \in {"scan", "done"} => cpos = Len(tree) + 1)
    /\ [][(pc \in {"scan", "done"}) => (valid_decls' = valid_decls)]_vars
    /\ [][(diagnostics' # diagnostics) => (pc = "scan" /\ pc' = "scan")]_vars

C10_Witness ==
    /\ pc = "scan"
    /\ stack # <<>>
    /\ diagnostics # <<>>
    /\ valid_decls # {}

====
